---- MODULE Spec2Model ----
(***************************************************************************)
(* A model of the photo store and cloud synchronisation of NewCountDown:   *)
(*   src/src/lib/storage.ts       PhotoStorage (local store, sync driver)  *)
(*   src/src/lib/cloudStorage.ts  CloudStorageService (remote gateway)     *)
(*                                                                         *)
(* Local store: idb-keyval entries "photo:<id>" and "photo_order".         *)
(* Remote side: Firestore documents keyed by cloudId and Storage blobs     *)
(* keyed by cloudId.                                                       *)
(*                                                                         *)
(* Encoding of values.  An optional string field (caption, cloudId) is a   *)
(* set with at most one element: {} is JavaScript's undefined, {""} the    *)
(* empty string.  Local ids and cloud ids are numbers drawn from counters  *)
(* (the code builds them from Date.now() and Math.random(), so a generated *)
(* id is never one that was generated before).  createdAt is a number.     *)
(* The fields data, takenAt, cloudUrl and lastSynced of a photo are not    *)
(* represented: cloudUrl and lastSynced are written together with cloudId, *)
(* data and takenAt are copied through unchanged by every operation here.  *)
(***************************************************************************)
EXTENDS Integers, Sequences, FiniteSets, TLC

\* ------------------------------------------------------------------ bounds
\* Number of local ids the id generator can hand out.
MaxIds == 2
\* Number of cloud ids the gateway can hand out.
MaxCloud == 3
\* createdAt timestamps are 1..MaxTime.
MaxTime == 2
\* Longest sequence handed to reorderPhotos.
MaxOrderLen == 2
\* Largest number of photo files in an archive handed to importData.
MaxFiles == 2
\* Calls of setupSyncListeners in one run.
MaxRegs == 2
\* Store calls that can be suspended at an await at the same time.
MaxCalls == 2

Ids == 1..MaxIds
CloudIds == 1..MaxCloud
Times == 1..MaxTime
\* An id that no generator ever produced (a caller may still hand it in).
GhostId == MaxIds + 1
PassIds == {"manual", "online"}

VARIABLES
  photos,     \* local store: stored id -> photo record ("photo:<id>" entries)
  order,      \* local store: the "photo_order" entry, a sequence of ids
  docs,       \* Firestore: document key (cloud id) -> document
  blobs,      \* Firebase Storage: set of cloud ids that have a blob
  nextId,     \* next local id the generator hands out
  nextCloud,  \* next cloud id the generator hands out
  lastSync,   \* localStorage 'lastSync': 0 = no item, else the time written
  pass,       \* per pass: position and local variables of syncWithCloud
  settings,   \* localStorage 't_andrew_settings': <<>> = no item, else <<value>>
  listeners,  \* window: the 'online'/'offline' listeners of setupSyncListeners
  calls,      \* store calls suspended at an await: slot -> position and locals
  defaults,   \* the DEFAULT_APP_SETTINGS object of this page load
  countdown,  \* the Countdown component: mounted or not, and what its effect holds
  last        \* the operation that produced the current state, and its outcome

\* The state of the page besides the stores and the sync passes.
page == <<listeners, calls, defaults, countdown>>

vars == <<photos, order, docs, blobs, nextId, nextCloud, lastSync, pass, settings,
          listeners, calls, defaults, countdown, last>>

\* ----------------------------------------------------------- small helpers
Put(f, k, v) == [x \in (DOMAIN f) \cup {k} |-> IF x = k THEN v ELSE f[x]]

Remove(f, k) == [x \in (DOMAIN f) \ {k} |-> f[x]]

\* JavaScript object spread { ...a, ...b }: keys of b win.
Spread(a, b) == [k \in (DOMAIN a) \cup (DOMAIN b) |-> IF k \in DOMAIN b THEN b[k] ELSE a[k]]

InSeq(x, s) == \E i \in 1..Len(s) : s[i] = x

Filter(s, keep(_)) == SelectSeq(s, keep)

The(s) == CHOOSE x \in s : TRUE

\* Array.prototype.map over a sequence.
MapSeq(s, f(_)) == [i \in 1..Len(s) |-> f(s[i])]

\* All sequences over S of length at most n.
SeqsUpTo(S, n) == UNION {[1..k -> S] : k \in 0..n}

\* The sequence of the elements of a finite set of numbers, ascending.
RECURSIVE Ascending(_)
Ascending(S) ==
  IF S = {} THEN <<>>
  ELSE LET m == CHOOSE x \in S : \A y \in S : x <= y
       IN <<m>> \o Ascending(S \ {m})

OptionalKeys == {"caption", "cloudId"}

\* value !== undefined, for the value v of key k.
IsDefined(k, v) == IF k \in OptionalKeys THEN v # {} ELSE TRUE

\* The label of the operation that produced the current state.
Label(op, id, key, arg, remote, outcome) ==
  [op |-> op, id |-> id, key |-> key, arg |-> arg, remote |-> remote, outcome |-> outcome]

IdlePass ==
  [pc |-> "idle", queue |-> <<>>, cleaned |-> 0,
   localPhotos |-> <<>>, cloudPhotos |-> <<>>,
   uploaded |-> <<>>, downloaded |-> <<>>, conflicts |-> <<>>,
   failed |-> FALSE, cleanupFailed |-> FALSE,
   interleaved |-> FALSE, result |-> "none", afterInterrupt |-> FALSE]

Running(p) == pass[p].pc \notin {"idle", "resolved", "rejected"}

\* An operation other than a step of a running pass has run: every running
\* pass has been interleaved with it, and the result of a pass that had
\* returned is no longer looked at.
Disturbed(ps) ==
  [p \in PassIds |->
     IF ps[p].pc \notin {"idle", "resolved", "rejected"}
     THEN [ps[p] EXCEPT !.interleaved = TRUE]
     ELSE [IdlePass EXCEPT !.afterInterrupt = (ps[p].pc = "idle" /\ ps[p].afterInterrupt)]]

\* ------------------------------------------------------------ remote gateway
\* deletePhoto as it would be with the blob deleted first: a rejection of
\* deleteDoc then leaves the document without its blob.
CloudDeletePhotoBlobFirst(d, b, cloudId, fail) ==
  IF fail = "blob" \/ cloudId \notin b
  THEN [docs |-> d, blobs |-> b, threw |-> TRUE]
  ELSE IF fail = "doc"
  THEN [docs |-> d, blobs |-> b \ {cloudId}, threw |-> TRUE]
  ELSE [docs |-> Remove(d, cloudId), blobs |-> b \ {cloudId}, threw |-> FALSE]

\* CloudStorageService.deletePhoto: deleteDoc, then deleteObject.  deleteDoc of
\* a missing document succeeds; deleteObject of a missing blob rejects.
\* fail: "none", "doc" (deleteDoc rejects), "blob" (deleteObject rejects).
CloudDeletePhoto(d, b, cloudId, fail) ==
  IF fail = "doc"
  THEN [docs |-> d, blobs |-> b, threw |-> TRUE]
  ELSE IF fail = "blob" \/ cloudId \notin b
  THEN [docs |-> Remove(d, cloudId), blobs |-> b, threw |-> TRUE]
  ELSE [docs |-> Remove(d, cloudId), blobs |-> b \ {cloudId}, threw |-> FALSE]

\* The entries of a partial update whose value is not undefined.
FilteredUpdates(updates) ==
  [k \in {x \in DOMAIN updates : IsDefined(x, updates[x])} |-> updates[k]]

\* CloudStorageService.updatePhoto: updateDoc with the defined entries;
\* updateDoc of a missing document rejects.
CloudUpdatePhoto(d, cloudId, updates, fail) ==
  IF fail \/ cloudId \notin DOMAIN d
  THEN [docs |-> d, threw |-> TRUE]
  ELSE [docs |-> Put(d, cloudId, Spread(d[cloudId], FilteredUpdates(updates))),
        threw |-> FALSE]

\* photo.caption || ''
CaptionOrEmpty(caption) == IF caption = {} \/ caption = {""} THEN {""} ELSE caption

\* The document uploadPhoto writes for a photo under a new cloud id.
FirestoreData(photo, cloudId) ==
  [id |-> photo.id, cloudId |-> {cloudId}, createdAt |-> photo.createdAt,
   caption |-> CaptionOrEmpty(photo.caption), isFavorite |-> photo.isFavorite,
   order |-> photo.order]

\* CloudStorageService.uploadPhoto: uploadBytes and getDownloadURL, then setDoc.
\* fail: "none", "blob" (uploadBytes rejects), "doc" (getDownloadURL or setDoc
\* rejects after the blob was written).
CloudUploadPhoto(d, b, photo, cloudId, fail) ==
  IF fail = "blob"
  THEN [docs |-> d, blobs |-> b, threw |-> TRUE]
  ELSE IF fail = "doc"
  THEN [docs |-> d, blobs |-> b \cup {cloudId}, threw |-> TRUE]
  ELSE [docs |-> Put(d, cloudId, FirestoreData(photo, cloudId)),
        blobs |-> b \cup {cloudId}, threw |-> FALSE]

\* The CloudPhoto uploadPhoto returns: { ...photo, cloudId, cloudUrl, lastSynced }.
UploadedPhoto(photo, cloudId) == Spread(photo, [cloudId |-> {cloudId}])

\* CloudStorageService.downloadPhoto can deliver: getDoc finds the document,
\* getDownloadURL and fetch find the blob.
CanDownload(d, b, cloudId) == cloudId \in DOMAIN d /\ cloudId \in b

\* The Photo downloadPhoto builds from the document (no cloud linkage fields).
DownloadedPhoto(d, cloudId) ==
  [id |-> d[cloudId].id, createdAt |-> d[cloudId].createdAt,
   caption |-> d[cloudId].caption, isFavorite |-> d[cloudId].isFavorite,
   order |-> d[cloudId].order, cloudId |-> {}]

\* One entry of CloudStorageService.getAllPhotos, built from the document
\* stored under key k (cloudId is the document's field, not its key).
CloudPhotoOf(d, k) ==
  [id |-> d[k].id, cloudId |-> d[k].cloudId, createdAt |-> d[k].createdAt,
   caption |-> d[k].caption, isFavorite |-> d[k].isFavorite, order |-> d[k].order,
   key |-> k]

\* The results getAllPhotos can return: every document once, ordered by
\* createdAt descending (documents with equal createdAt in any order).
CloudListings(d) ==
  {MapSeq(ks, LAMBDA k : CloudPhotoOf(d, k)) :
     ks \in {s \in [1..Cardinality(DOMAIN d) -> DOMAIN d] :
               /\ \A i, j \in DOMAIN s : i # j => s[i] # s[j]
               /\ \A i, j \in DOMAIN s : i < j => d[s[i]].createdAt >= d[s[j]].createdAt}}

\* ---------------------------------------------------------------- local store
\* PhotoStorage.getAllPhotos: the stored photos in key order.
GetAllPhotos(ph) == MapSeq(Ascending(DOMAIN ph), LAMBDA id : ph[id])

\* PhotoStorage.getPhotosInOrder.
GetPhotosInOrder(ph, ord) ==
  LET orderedIds == Filter(ord, LAMBDA id : id \in DOMAIN ph)
      orderedPhotos == MapSeq(orderedIds, LAMBDA id : ph[id])
      unorderedPhotos == Filter(GetAllPhotos(ph), LAMBDA photo : ~InSeq(photo.id, ord))
  IN orderedPhotos \o unorderedPhotos

\* The stores after PhotoStorage.savePhotoWithId(photo).
SavedWithId(ph, ord, photo) ==
  [photos |-> Put(ph, photo.id, photo),
   order |-> IF InSeq(photo.id, ord) THEN ord ELSE Append(ord, photo.id)]

\* savePhoto as it would be if it normalised the caption the way uploadPhoto
\* does for the remote document.
SavePhotoCaptionOrEmpty(photo) ==
  /\ nextId <= MaxIds
  /\ photos' = Put(photos, nextId,
                   Spread(photo, [id |-> nextId, caption |-> CaptionOrEmpty(photo.caption)]))
  /\ order' = Append(order, nextId)
  /\ nextId' = nextId + 1
  /\ pass' = Disturbed(pass)
  /\ UNCHANGED page
  /\ last' = Label("save", nextId, nextId, photo, "none", "resolved")
  /\ UNCHANGED <<docs, blobs, nextCloud, lastSync, settings>>

\* PhotoStorage.savePhoto(photo): a fresh id, the record, the id appended.
SavePhoto(photo) ==
  /\ nextId <= MaxIds
  /\ photos' = Put(photos, nextId, Spread(photo, [id |-> nextId]))
  /\ order' = Append(order, nextId)
  /\ nextId' = nextId + 1
  /\ pass' = Disturbed(pass)
  /\ UNCHANGED page
  /\ last' = Label("save", nextId, nextId, photo, "none", "resolved")
  /\ UNCHANGED <<docs, blobs, nextCloud, lastSync, settings>>

\* savePhotoWithId as it would be without the membership test: the id is
\* appended to the order list on every call.
SavePhotoWithIdAppending(photo) ==
  /\ photos' = Put(photos, photo.id, photo)
  /\ order' = Append(order, photo.id)
  /\ pass' = Disturbed(pass)
  /\ UNCHANGED page
  /\ last' = Label("saveWithId", photo.id, photo.id, <<>>, "none", "resolved")
  /\ UNCHANGED <<docs, blobs, nextId, nextCloud, lastSync, settings>>

\* PhotoStorage.savePhotoWithId(photo).
SavePhotoWithId(photo) ==
  /\ photos' = SavedWithId(photos, order, photo).photos
  /\ order' = SavedWithId(photos, order, photo).order
  /\ pass' = Disturbed(pass)
  /\ UNCHANGED page
  /\ last' = Label("saveWithId", photo.id, photo.id, <<>>, "none", "resolved")
  /\ UNCHANGED <<docs, blobs, nextId, nextCloud, lastSync, settings>>

\* deletePhoto as it would be without the try/catch around the remote
\* deletion: a remote failure rejects the call before the local deletion.
DeletePhotoPropagating(id, fail) ==
  IF id \notin DOMAIN photos
  THEN /\ fail = "none"
       /\ UNCHANGED page
       /\ last' = Label("delete", id, id, <<>>, "none", "resolved")
       /\ UNCHANGED <<photos, order, docs, blobs, nextId, nextCloud, lastSync, pass, settings>>
  ELSE LET photo == photos[id]
           attempted == photo.cloudId # {}
           r == IF attempted
                THEN CloudDeletePhoto(docs, blobs, The(photo.cloudId), fail)
                ELSE [docs |-> docs, blobs |-> blobs, threw |-> FALSE]
       IN /\ attempted \/ fail = "none"
          /\ docs' = r.docs
          /\ blobs' = r.blobs
          /\ photos' = IF r.threw THEN photos ELSE Remove(photos, id)
          /\ order' = IF r.threw THEN order ELSE Filter(order, LAMBDA photoId : photoId # id)
          /\ pass' = Disturbed(pass)
          /\ UNCHANGED page
          /\ last' = Label("delete", id, id, <<>>,
                           IF ~attempted THEN "none" ELSE IF r.threw THEN "failed" ELSE "ok",
                           IF r.threw THEN "rejected" ELSE "resolved")
          /\ UNCHANGED <<nextId, nextCloud, lastSync, settings>>

\* PhotoStorage.deletePhoto(id).  fail is the outcome of the remote deletion
\* when one is attempted.
DeletePhoto(id, fail) ==
  IF id \notin DOMAIN photos
  THEN /\ fail = "none"
       /\ UNCHANGED page
       /\ last' = Label("delete", id, id, <<>>, "none", "resolved")
       /\ UNCHANGED <<photos, order, docs, blobs, nextId, nextCloud, lastSync, pass, settings>>
  ELSE LET photo == photos[id]
           attempted == photo.cloudId # {}
           r == IF attempted
                THEN CloudDeletePhoto(docs, blobs, The(photo.cloudId), fail)
                ELSE [docs |-> docs, blobs |-> blobs, threw |-> FALSE]
       IN /\ attempted \/ fail = "none"
          /\ docs' = r.docs
          /\ blobs' = r.blobs
          /\ photos' = Remove(photos, id)
          /\ order' = Filter(order, LAMBDA photoId : photoId # id)
          /\ pass' = Disturbed(pass)
          /\ UNCHANGED page
          /\ last' = Label("delete", id, id, <<>>,
                           IF ~attempted THEN "none" ELSE IF r.threw THEN "failed" ELSE "ok",
                           "resolved")
          /\ UNCHANGED <<nextId, nextCloud, lastSync, settings>>

\* updatePhoto as it would be if the remote update came first and its failure
\* skipped the local write.
UpdatedRemoteFirst(ph, d, id, updates, fail) ==
  LET photo == ph[id]
      attempted == photo.cloudId # {}
      r == IF attempted
           THEN CloudUpdatePhoto(d, The(photo.cloudId), updates, fail)
           ELSE [docs |-> d, threw |-> FALSE]
  IN [photos |-> IF r.threw THEN ph ELSE Put(ph, id, Spread(photo, updates)),
      docs |-> r.docs,
      remote |-> IF ~attempted THEN "none" ELSE IF r.threw THEN "failed" ELSE "ok"]

\* The stores after PhotoStorage.updatePhoto(id, updates) on a photo that
\* exists; fail is the outcome of the remote update when one is attempted.
Updated(ph, d, id, updates, fail) ==
  LET photo == ph[id]
      attempted == photo.cloudId # {}
      r == IF attempted
           THEN CloudUpdatePhoto(d, The(photo.cloudId), updates, fail)
           ELSE [docs |-> d, threw |-> FALSE]
  IN [photos |-> Put(ph, id, Spread(photo, updates)),
      docs |-> r.docs,
      remote |-> IF ~attempted THEN "none" ELSE IF r.threw THEN "failed" ELSE "ok"]

\* PhotoStorage.updatePhoto(id, updates).
UpdatePhoto(id, updates, fail) ==
  IF id \notin DOMAIN photos
  THEN /\ ~fail
       /\ UNCHANGED page
       /\ last' = Label("update", id, id, updates, "none", "resolved")
       /\ UNCHANGED <<photos, order, docs, blobs, nextId, nextCloud, lastSync, pass, settings>>
  ELSE LET r == Updated(photos, docs, id, updates, fail)
       IN /\ (photos[id].cloudId = {}) => ~fail
          /\ photos' = r.photos
          /\ docs' = r.docs
          /\ pass' = Disturbed(pass)
          /\ UNCHANGED page
          /\ last' = Label("update", id, id, updates, r.remote, "resolved")
          /\ UNCHANGED <<order, blobs, nextId, nextCloud, lastSync, settings>>

\* PhotoStorage.reorderPhotos(photoIds): the order list is replaced.
ReorderPhotos(photoIds) ==
  /\ order' = photoIds
  /\ UNCHANGED page
  /\ last' = Label("reorder", 0, 0, <<>>, "none", "resolved")
  /\ UNCHANGED <<photos, docs, blobs, nextId, nextCloud, lastSync, pass, settings>>

\* PhotoStorage.uploadPhotoToCloud(photoId).  fail is the outcome of the
\* upload, failUpdate that of the remote update inside updatePhoto.
UploadPhotoToCloud(photoId, fail, failUpdate) ==
  IF photoId \notin DOMAIN photos
  THEN /\ fail = "none" /\ ~failUpdate
       /\ UNCHANGED page
       /\ last' = Label("uploadToCloud", photoId, 0, <<>>, "none", "rejected")
       /\ UNCHANGED <<photos, order, docs, blobs, nextId, nextCloud, lastSync, pass, settings>>
  ELSE LET up == CloudUploadPhoto(docs, blobs, photos[photoId], nextCloud, fail)
           r == Updated(photos, up.docs, photoId, [cloudId |-> {nextCloud}], failUpdate)
       IN /\ nextCloud <= MaxCloud
          /\ blobs' = up.blobs
          /\ nextCloud' = IF fail = "blob" THEN nextCloud ELSE nextCloud + 1
          /\ pass' = Disturbed(pass)
          /\ IF up.threw
             THEN /\ ~failUpdate
                  /\ docs' = up.docs
                  /\ UNCHANGED page
                  /\ last' = Label("uploadToCloud", photoId, nextCloud, <<>>, "failed", "rejected")
                  /\ UNCHANGED photos
             ELSE /\ (photos[photoId].cloudId = {}) => ~failUpdate
                  /\ photos' = r.photos
                  /\ docs' = r.docs
                  /\ UNCHANGED page
                  /\ last' = Label("uploadToCloud", photoId, nextCloud, <<>>, "ok", "resolved")
          /\ UNCHANGED <<order, nextId, lastSync, settings>>

\* PhotoStorage.downloadPhotoFromCloud(cloudId): downloadPhoto, then savePhoto
\* of the result (which assigns a fresh id).  fail: the download rejects.
DownloadPhotoFromCloud(cloudId, fail) ==
  IF fail \/ ~CanDownload(docs, blobs, cloudId)
  THEN /\ UNCHANGED page
       /\ last' = Label("downloadFromCloud", 0, 0, <<>>, "failed", "rejected")
       /\ UNCHANGED <<photos, order, docs, blobs, nextId, nextCloud, lastSync, pass, settings>>
  ELSE LET photo == DownloadedPhoto(docs, cloudId)
       IN /\ nextId <= MaxIds
          /\ photos' = Put(photos, nextId, Spread(photo, [id |-> nextId]))
          /\ order' = Append(order, nextId)
          /\ nextId' = nextId + 1
          /\ pass' = Disturbed(pass)
          /\ UNCHANGED page
          /\ last' = Label("downloadFromCloud", photo.id, nextId, <<>>, "ok", "resolved")
          /\ UNCHANGED <<docs, blobs, nextCloud, lastSync, settings>>

\* ------------------------------------------- store calls, await by await
\* The slots of calls that are suspended at an await.
Slots == 1..MaxCalls

FreeSlots == Slots \ DOMAIN calls

\* savePhoto up to its first await: the id is generated and the record is
\* written; the call then waits to read the order list.
SavePhotoSet(photo) ==
  /\ nextId <= MaxIds
  /\ FreeSlots # {}
  /\ LET slot == CHOOSE c \in FreeSlots : \A d \in FreeSlots : c <= d
     IN calls' = Put(calls, slot, [op |-> "save", id |-> nextId, read |-> <<>>, got |-> FALSE,
                                   updates |-> <<>>])
  /\ photos' = Put(photos, nextId, Spread(photo, [id |-> nextId]))
  /\ nextId' = nextId + 1
  /\ pass' = Disturbed(pass)
  /\ last' = Label("saveSet", nextId, nextId, photo, "none", "pending")
  /\ UNCHANGED <<order, docs, blobs, nextCloud, lastSync, settings>>
  /\ UNCHANGED <<listeners, defaults, countdown>>

\* savePhoto: getPhotoOrder returns the order list as it is now.
SavePhotoGetOrder(slot) ==
  /\ slot \in DOMAIN calls
  /\ calls[slot].op = "save" /\ ~calls[slot].got
  /\ calls' = [calls EXCEPT ![slot] = [@ EXCEPT !.read = order, !.got = TRUE]]
  /\ last' = Label("saveGetOrder", calls[slot].id, calls[slot].id, <<>>, "none", "pending")
  /\ UNCHANGED <<photos, order, docs, blobs, nextId, nextCloud, lastSync, pass, settings>>
  /\ UNCHANGED <<listeners, defaults, countdown>>

\* savePhoto: the list that was read, with the id pushed, is written, and
\* the id is returned.
SavePhotoSetOrder(slot) ==
  /\ slot \in DOMAIN calls
  /\ calls[slot].op = "save" /\ calls[slot].got
  /\ order' = Append(calls[slot].read, calls[slot].id)
  /\ calls' = Remove(calls, slot)
  /\ pass' = Disturbed(pass)
  /\ last' = Label("save", calls[slot].id, calls[slot].id, <<>>, "none", "resolved")
  /\ UNCHANGED <<photos, docs, blobs, nextId, nextCloud, lastSync, settings>>
  /\ UNCHANGED <<listeners, defaults, countdown>>

\* updatePhoto up to its first await on a photo that exists: getPhoto
\* returns the record as it is now.  (A missing photo ends the call.)
UpdatePhotoGet(id, updates) ==
  /\ id \in DOMAIN photos
  /\ FreeSlots # {}
  /\ LET slot == CHOOSE c \in FreeSlots : \A d \in FreeSlots : c <= d
     IN calls' = Put(calls, slot, [op |-> "update", id |-> id, read |-> photos[id], got |-> TRUE,
                                   updates |-> updates])
  /\ last' = Label("updateGet", id, id, updates, "none", "pending")
  /\ UNCHANGED <<photos, order, docs, blobs, nextId, nextCloud, lastSync, pass, settings>>
  /\ UNCHANGED <<listeners, defaults, countdown>>

\* updatePhoto: the record that was read, with the updates spread over it, is
\* written; the remote update follows when the record that was read carries
\* a cloudId, and its failure is swallowed.
UpdatePhotoSet(slot, fail) ==
  /\ slot \in DOMAIN calls
  /\ calls[slot].op = "update"
  /\ LET c == calls[slot]
         attempted == c.read.cloudId # {}
         r == IF attempted
              THEN CloudUpdatePhoto(docs, The(c.read.cloudId), c.updates, fail)
              ELSE [docs |-> docs, threw |-> FALSE]
     IN /\ ~attempted => ~fail
        /\ photos' = Put(photos, c.id, Spread(c.read, c.updates))
        /\ docs' = r.docs
        /\ last' = Label("update", c.id, c.id, c.updates,
                         IF ~attempted THEN "none" ELSE IF r.threw THEN "failed" ELSE "ok",
                         "resolved")
  /\ calls' = Remove(calls, slot)
  /\ pass' = Disturbed(pass)
  /\ UNCHANGED <<order, blobs, nextId, nextCloud, lastSync, settings>>
  /\ UNCHANGED <<listeners, defaults, countdown>>

\* ------------------------------------------------------- settings, export, import
\* DEFAULT_COUNTDOWN: the target date is date 1.
DEFAULT_COUNTDOWN == [targetDate |-> 1, timezone |-> "America/Edmonton"]

DEFAULT_APP_SETTINGS == [theme |-> "system", countdown |-> DEFAULT_COUNTDOWN]

\* SettingsStorage.getSettings for the persisted item st (<<>>: no item).  With
\* no item the DEFAULT_APP_SETTINGS object itself is returned, as it is now;
\* with an item a new object is built from it over the defaults.
GetSettings(st) ==
  IF st = <<>> THEN defaults
  ELSE LET parsed == st[1]
       IN Spread(Spread(defaults, parsed),
                 [countdown |-> IF "countdown" \in DOMAIN parsed
                                THEN Spread(DEFAULT_COUNTDOWN, parsed.countdown)
                                ELSE DEFAULT_COUNTDOWN])

\* The DEFAULT_APP_SETTINGS object after an assignment to a field of the
\* object getSettings returned: with no item persisted that object is the
\* defaults object, which then holds the assigned value.
DefaultsAfter(assigned) == IF settings = <<>> THEN assigned ELSE defaults

\* SettingsStorage.saveSettings(value).
SaveSettings(value) ==
  /\ settings' = <<value>>
  /\ last' = Label("saveSettings", 0, 0, value, "none", "resolved")
  /\ UNCHANGED <<photos, order, docs, blobs, nextId, nextCloud, lastSync, pass>>
  /\ UNCHANGED page

\* SettingsStorage.updateTheme(theme): getSettings, assignment, saveSettings.
UpdateTheme(theme) ==
  LET assigned == Spread(GetSettings(settings), [theme |-> theme])
  IN /\ settings' = <<assigned>>
     /\ defaults' = DefaultsAfter(assigned)
     /\ last' = Label("updateTheme", 0, 0, <<>>, "none", "resolved")
     /\ UNCHANGED <<photos, order, docs, blobs, nextId, nextCloud, lastSync, pass>>
     /\ UNCHANGED <<listeners, calls, countdown>>

\* SettingsStorage.updateCountdown(value): getSettings, assignment,
\* saveSettings.
UpdateCountdown(value) ==
  LET assigned == Spread(GetSettings(settings), [countdown |-> value])
  IN /\ settings' = <<assigned>>
     /\ defaults' = DefaultsAfter(assigned)
     /\ last' = Label("updateCountdown", 0, 0, value, "none", "resolved")
     /\ UNCHANGED <<photos, order, docs, blobs, nextId, nextCloud, lastSync, pass>>
     /\ UNCHANGED <<listeners, calls, countdown>>

\* SettingsStorage.clearAllData(): the settings item is removed.
ClearAllData ==
  /\ settings' = <<>>
  /\ last' = Label("clearAllData", 0, 0, <<>>, "none", "resolved")
  /\ UNCHANGED <<photos, order, docs, blobs, nextId, nextCloud, lastSync, pass>>
  /\ UNCHANGED page

\* Date.prototype.toISOString and new Date(isoString).
ToISOString(date) == <<"iso", date>>

ParseDate(text) == text[2]

\* JSON.stringify followed by JSON.parse of an object: the entries whose
\* value is undefined are gone.
JsonRoundTrip(obj) == [k \in {x \in DOMAIN obj : IsDefined(x, obj[x])} |-> obj[k]]

\* An export entry that loses the caption.
ExportedPhotoNoCaption(photo) ==
  [id |-> photo.id, createdAt |-> ToISOString(photo.createdAt), caption |-> {},
   isFavorite |-> photo.isFavorite, order |-> photo.order]

\* The entry exportData builds for one photo.
ExportedPhoto(photo) ==
  [id |-> photo.id, createdAt |-> ToISOString(photo.createdAt), caption |-> photo.caption,
   isFavorite |-> photo.isFavorite, order |-> photo.order]

\* DataExporter.exportData: the archive written for the local state.
ExportData(ph, st) ==
  [manifest |-> "1.0.0",
   settings |-> <<GetSettings(st)>>,
   photos |-> MapSeq(GetAllPhotos(ph), LAMBDA photo : JsonRoundTrip(ExportedPhoto(photo)))]

\* The Photo importData builds from one photo file of the archive.
ImportedPhoto(photoData) ==
  [id |-> photoData.id, createdAt |-> ParseDate(photoData.createdAt),
   caption |-> IF "caption" \in DOMAIN photoData THEN photoData.caption ELSE {},
   isFavorite |-> photoData.isFavorite, order |-> photoData.order, cloudId |-> {}]

\* The local photo records after the photo files fs were imported in turn.
RECURSIVE ImportedPhotos(_, _)
ImportedPhotos(ph, fs) ==
  IF fs = <<>> THEN ph
  ELSE ImportedPhotos(Put(ph, Head(fs).id, ImportedPhoto(Head(fs))), Tail(fs))

\* A file of the archive whose text JSON.parse rejects.
MalformedFile == [malformed |-> TRUE]

Parses(file) == "malformed" \notin DOMAIN file

\* The photo files the import loop gets through: those before the first one
\* that JSON.parse rejects.
RECURSIVE ParsedPrefix(_)
ParsedPrefix(fs) ==
  IF fs = <<>> THEN <<>>
  ELSE IF ~Parses(Head(fs)) THEN <<>>
  ELSE <<Head(fs)>> \o ParsedPrefix(Tail(fs))

\* importData as it would be if it looked at the manifest only after the
\* settings and the photo files were written.
ImportedVersionLate(ph, st, archive) ==
  LET files == IF archive.settings # <<>> /\ ~Parses(archive.settings[1]) THEN <<>>
               ELSE ParsedPrefix(archive.photos)
      written == [photos |-> ImportedPhotos(ph, files),
                  settings |-> IF archive.settings # <<>> /\ Parses(archive.settings[1])
                               THEN archive.settings ELSE st]
  IN IF archive.manifest # "1.0.0"
     THEN [photos |-> written.photos, settings |-> written.settings,
           cause |-> "manifest", outcome |-> "rejected"]
     ELSE IF archive.settings # <<>> /\ ~Parses(archive.settings[1])
     THEN [photos |-> ph, settings |-> st, cause |-> "settings", outcome |-> "rejected"]
     ELSE [photos |-> written.photos, settings |-> written.settings,
           cause |-> IF Len(files) = Len(archive.photos) THEN "none" ELSE "photo",
           outcome |-> IF Len(files) = Len(archive.photos) THEN "resolved" ELSE "rejected"]

\* The local state after DataExporter.importData on an archive.
\* archive.manifest: "missing", "malformed" or the version string;
\* archive.settings: <<>> (no settings.json) or <<file>>;
\* archive.photos: the photo files.  cause: what made the call reject.
Imported(ph, st, archive) ==
  IF archive.manifest # "1.0.0"
  THEN [photos |-> ph, settings |-> st, cause |-> "manifest", outcome |-> "rejected"]
  ELSE IF archive.settings # <<>> /\ ~Parses(archive.settings[1])
  THEN [photos |-> ph, settings |-> st, cause |-> "settings", outcome |-> "rejected"]
  ELSE LET parsed == ParsedPrefix(archive.photos)
           complete == Len(parsed) = Len(archive.photos)
       IN [photos |-> ImportedPhotos(ph, parsed),
           settings |-> IF archive.settings # <<>> THEN archive.settings ELSE st,
           cause |-> IF complete THEN "none" ELSE "photo",
           outcome |-> IF complete THEN "resolved" ELSE "rejected"]

\* DataExporter.importData(file).
ImportData(archive) ==
  LET r == Imported(photos, settings, archive)
  IN /\ photos' = r.photos
     /\ settings' = r.settings
     /\ pass' = IF r.cause \in {"manifest", "settings"} THEN pass ELSE Disturbed(pass)
     /\ UNCHANGED page
     /\ last' = Label("import", 0, 0, archive.manifest, r.cause, r.outcome)
     /\ UNCHANGED <<order, docs, blobs, nextId, nextCloud, lastSync>>

\* exportData on one device, then importData of the archive on a device whose
\* local store is empty: the state of that second store.
ExportThenImportIntoEmptyStore ==
  LET archive == ExportData(photos, settings)
      r == Imported(<<>>, <<>>, archive)
  IN /\ photos # <<>>
     /\ photos' = r.photos
     /\ settings' = r.settings
     /\ order' = <<>>
     /\ pass' = Disturbed(pass)
     /\ UNCHANGED page
     /\ last' = Label("exportImport", 0, 0, <<>>, "none", r.outcome)
     /\ UNCHANGED <<docs, blobs, nextId, nextCloud, lastSync>>

\* ------------------------------------------------------------ the sync pass
\* new Map(list.map(p => [p.id, p])).has(id)
MapHas(list, id) == \E i \in 1..Len(list) : list[i].id = id

\* new Map(list.map(p => [p.id, p])).get(id): of equal keys the last one stays.
MapGet(list, id) ==
  list[CHOOSE i \in 1..Len(list) :
         list[i].id = id /\ \A j \in (i + 1)..Len(list) : list[j].id # id]

\* An upload set that ignores the remote index: every local photo.
UploadQueueAll(localPhotos, cloudPhotos) ==
  Filter(localPhotos, LAMBDA localPhoto : MapHas(localPhotos, localPhoto.id))

\* An upload set decided by the local cloud linkage instead of the remote
\* index: every local photo that carries no cloudId.
UploadQueueUnlinked(localPhotos, cloudPhotos) ==
  Filter(localPhotos, LAMBDA localPhoto : localPhoto.cloudId = {} /\ cloudPhotos = cloudPhotos)

\* syncPhotos: the local photos that are uploaded.
UploadQueue(localPhotos, cloudPhotos) ==
  Filter(localPhotos, LAMBDA localPhoto : ~MapHas(cloudPhotos, localPhoto.id))

\* A download set that looks the cloud photo up in the remote index instead
\* of the local one: nothing is downloaded.
DownloadQueueNone(localPhotos, cloudPhotos) ==
  Filter(cloudPhotos, LAMBDA cloudPhoto : ~MapHas(cloudPhotos, cloudPhoto.id))

\* syncPhotos: the cloud photos that are downloaded.
DownloadQueue(localPhotos, cloudPhotos) ==
  Filter(cloudPhotos, LAMBDA cloudPhoto : ~MapHas(localPhotos, cloudPhoto.id))

\* A conflict list that does not compare createdAt: every id on both sides.
ConflictsOnBothSides(localPhotos, cloudPhotos) ==
  LET hit == Filter(localPhotos, LAMBDA localPhoto : MapHas(cloudPhotos, localPhoto.id))
  IN MapSeq(hit, LAMBDA localPhoto :
       [local |-> localPhoto, cloud |-> MapGet(cloudPhotos, localPhoto.id)])

\* syncPhotos: the conflict list.
Conflicts(localPhotos, cloudPhotos) ==
  LET hit == Filter(localPhotos, LAMBDA localPhoto :
                 /\ MapHas(cloudPhotos, localPhoto.id)
                 /\ localPhoto.createdAt # MapGet(cloudPhotos, localPhoto.id).createdAt)
  IN MapSeq(hit, LAMBDA localPhoto :
       [local |-> localPhoto, cloud |-> MapGet(cloudPhotos, localPhoto.id)])

\* The pass has applied all side effects: lastSync is written, the result returned.
Finished(P) == [P EXCEPT !.pc = "resolved", !.result = "resolved", !.queue = <<>>]

\* The pass rejects.
Rejected(P) == [P EXCEPT !.pc = "rejected", !.result = "rejected", !.queue = <<>>,
                         !.failed = TRUE]

\* syncWithCloud after the updates of the uploaded photos: the loop over
\* syncResult.downloaded.
EnterSave(P) ==
  IF P.downloaded # <<>>
  THEN [P EXCEPT !.pc = "saveDownloaded", !.queue = P.downloaded]
  ELSE Finished(P)

\* syncPhotos has returned: the loop over syncResult.uploaded.
EnterApply(P) ==
  LET P1 == [P EXCEPT !.conflicts = Conflicts(P.localPhotos, P.cloudPhotos)]
  IN IF P1.uploaded # <<>>
     THEN [P1 EXCEPT !.pc = "applyUpload", !.queue = P1.uploaded]
     ELSE EnterSave(P1)

\* syncPhotos after the upload loop: the download loop.
EnterDownload(P) ==
  LET q == DownloadQueue(P.localPhotos, P.cloudPhotos)
  IN IF q # <<>> THEN [P EXCEPT !.pc = "download", !.queue = q] ELSE EnterApply(P)

\* syncPhotos after the remote list: the upload loop.
EnterUpload(P) ==
  LET q == UploadQueue(P.localPhotos, P.cloudPhotos)
  IN IF q # <<>> THEN [P EXCEPT !.pc = "upload", !.queue = q] ELSE EnterDownload(P)

\* lastSync as it would be if it were written in a finally block: by every
\* pass that ends, rejected ones included.
LastSyncAfterAnyEnd(P) ==
  IF P.pc \in {"resolved", "rejected"} THEN (lastSync % 2) + 1 ELSE lastSync

\* The value of localStorage 'lastSync' after a step that leaves the pass as P:
\* a pass that completes writes the current time, which differs from the
\* time any earlier pass wrote.
LastSyncAfter(P) == IF P.pc = "resolved" THEN (lastSync % 2) + 1 ELSE lastSync

\* A call of syncWithCloud.
SyncStart(p) ==
  /\ ~Running(p)
  /\ pass' = [pass EXCEPT ![p] = [IdlePass EXCEPT !.pc = "cleanupList",
                                                 !.afterInterrupt = (pass[p].pc = "idle" /\ pass[p].afterInterrupt)]]
  /\ UNCHANGED page
  /\ last' = Label("syncStart", 0, 0, <<>>, "none", "resolved")
  /\ UNCHANGED <<photos, order, docs, blobs, nextId, nextCloud, lastSync, settings>>

\* cleanupInvalidPhotos as it would be without its catch: a rejection of the
\* list fetch rejects the pass.
CleanupListPropagating(p, fail) ==
  /\ pass[p].pc = "cleanupList"
  /\ IF fail
     THEN pass' = [pass EXCEPT ![p] = [Rejected(@) EXCEPT !.cleanupFailed = TRUE]]
     ELSE \E listing \in CloudListings(docs) :
            pass' = [pass EXCEPT ![p] = [@ EXCEPT
                       !.pc = IF listing = <<>> THEN "readLocal" ELSE "cleanupItem",
                       !.queue = listing]]
  /\ UNCHANGED page
  /\ last' = Label("cleanupList", 0, 0, <<>>, IF fail THEN "failed" ELSE "ok", "resolved")
  /\ UNCHANGED <<photos, order, docs, blobs, nextId, nextCloud, lastSync, settings>>

\* cleanupInvalidPhotos: getAllPhotos.  A rejection is caught: 0 is returned.
CleanupList(p, fail) ==
  /\ pass[p].pc = "cleanupList"
  /\ IF fail
     THEN pass' = [pass EXCEPT ![p] = [@ EXCEPT !.pc = "readLocal", !.cleaned = 0,
                                               !.failed = TRUE, !.cleanupFailed = TRUE]]
     ELSE \E listing \in CloudListings(docs) :
            pass' = [pass EXCEPT ![p] = [@ EXCEPT
                       !.pc = IF listing = <<>> THEN "readLocal" ELSE "cleanupItem",
                       !.queue = listing]]
  /\ UNCHANGED page
  /\ last' = Label("cleanupList", 0, 0, <<>>, IF fail THEN "failed" ELSE "ok", "resolved")
  /\ UNCHANGED <<photos, order, docs, blobs, nextId, nextCloud, lastSync, settings>>

\* cleanupInvalidPhotos: one turn of the loop.  The probe (getDownloadURL)
\* rejects when probeFail or when the blob is missing; then deletePhoto runs
\* with outcome delFail, and only a deletion that does not throw is counted.
CleanupItem(p, probeFail, delFail) ==
  LET P == pass[p]
      cloudId == The(Head(P.queue).cloudId)
      invalid == probeFail \/ cloudId \notin blobs
      r == IF invalid THEN CloudDeletePhoto(docs, blobs, cloudId, delFail)
           ELSE [docs |-> docs, blobs |-> blobs, threw |-> FALSE]
  IN /\ P.pc = "cleanupItem"
     /\ invalid \/ delFail = "none"
     /\ docs' = r.docs
     /\ blobs' = r.blobs
     /\ pass' = [pass EXCEPT ![p] = [@ EXCEPT
                   !.queue = Tail(P.queue),
                   !.pc = IF Tail(P.queue) = <<>> THEN "readLocal" ELSE "cleanupItem",
                   !.cleaned = IF invalid /\ ~r.threw THEN P.cleaned + 1 ELSE P.cleaned,
                   !.failed = P.failed \/ invalid,
                   !.cleanupFailed = P.cleanupFailed \/ r.threw]]
     /\ UNCHANGED page
     /\ last' = Label("cleanupItem", 0, cloudId, <<>>,
                      IF ~invalid THEN "ok" ELSE IF r.threw THEN "failed" ELSE "deleted",
                      "resolved")
     /\ UNCHANGED <<photos, order, nextId, nextCloud, lastSync, settings>>

\* syncWithCloud: getAllPhotos of the local store.
SyncReadLocal(p) ==
  /\ pass[p].pc = "readLocal"
  /\ pass' = [pass EXCEPT ![p] = [@ EXCEPT !.pc = "listRemote",
                                            !.localPhotos = GetAllPhotos(photos)]]
  /\ UNCHANGED page
  /\ last' = Label("syncReadLocal", 0, 0, <<>>, "none", "resolved")
  /\ UNCHANGED <<photos, order, docs, blobs, nextId, nextCloud, lastSync, settings>>

\* syncPhotos: getAllPhotos of the remote side; a rejection aborts the pass.
SyncListRemote(p, fail) ==
  /\ pass[p].pc = "listRemote"
  /\ IF fail
     THEN /\ pass' = [pass EXCEPT ![p] = Rejected(@)]
          /\ UNCHANGED lastSync
     ELSE \E listing \in CloudListings(docs) :
            LET P == EnterUpload([pass[p] EXCEPT !.cloudPhotos = listing])
            IN /\ pass' = [pass EXCEPT ![p] = P]
               /\ lastSync' = LastSyncAfter(P)
  /\ UNCHANGED page
  /\ last' = Label("syncListRemote", 0, 0, <<>>, IF fail THEN "failed" ELSE "ok", "resolved")
  /\ UNCHANGED <<photos, order, docs, blobs, nextId, nextCloud, settings>>

\* The upload loop as it would be with the per-item catch of the download
\* loop: a failed upload is skipped and the pass goes on.
SyncUploadSkipping(p, fail) ==
  LET P == pass[p]
      localPhoto == Head(P.queue)
      up == CloudUploadPhoto(docs, blobs, localPhoto, nextCloud, fail)
      P1 == [P EXCEPT !.queue = Tail(P.queue),
                      !.uploaded = IF up.threw THEN P.uploaded
                                   ELSE Append(P.uploaded, UploadedPhoto(localPhoto, nextCloud)),
                      !.failed = P.failed \/ up.threw]
      P2 == IF P1.queue = <<>> THEN EnterDownload(P1) ELSE P1
  IN /\ P.pc = "upload"
     /\ nextCloud <= MaxCloud
     /\ docs' = up.docs
     /\ blobs' = up.blobs
     /\ nextCloud' = IF fail = "blob" THEN nextCloud ELSE nextCloud + 1
     /\ pass' = [pass EXCEPT ![p] = P2]
     /\ lastSync' = LastSyncAfter(P2)
     /\ UNCHANGED page
     /\ last' = Label("syncUpload", localPhoto.id, nextCloud, <<>>,
                      IF up.threw THEN "failed" ELSE "ok", "resolved")
     /\ UNCHANGED <<photos, order, nextId, settings>>

\* syncPhotos: one turn of the upload loop; a rejection aborts the pass.
SyncUpload(p, fail) ==
  LET P == pass[p]
      localPhoto == Head(P.queue)
      up == CloudUploadPhoto(docs, blobs, localPhoto, nextCloud, fail)
      P1 == [P EXCEPT !.queue = Tail(P.queue),
                      !.uploaded = Append(P.uploaded, UploadedPhoto(localPhoto, nextCloud))]
      P2 == IF up.threw THEN Rejected(P)
            ELSE IF P1.queue = <<>> THEN EnterDownload(P1) ELSE P1
  IN /\ P.pc = "upload"
     /\ nextCloud <= MaxCloud
     /\ docs' = up.docs
     /\ blobs' = up.blobs
     /\ nextCloud' = IF fail = "blob" THEN nextCloud ELSE nextCloud + 1
     /\ pass' = [pass EXCEPT ![p] = P2]
     /\ lastSync' = LastSyncAfter(P2)
     /\ UNCHANGED page
     /\ last' = Label("syncUpload", localPhoto.id, nextCloud, <<>>,
                      IF up.threw THEN "failed" ELSE "ok", "resolved")
     /\ UNCHANGED <<photos, order, nextId, settings>>

\* The download loop as it would be without its per-item catch: a failed
\* download rejects the pass.
SyncDownloadPropagating(p, fail) ==
  LET P == pass[p]
      cloudId == The(Head(P.queue).cloudId)
      ok == ~fail /\ CanDownload(docs, blobs, cloudId)
      P1 == [P EXCEPT !.queue = Tail(P.queue),
                      !.downloaded = IF ok THEN Append(P.downloaded, DownloadedPhoto(docs, cloudId))
                                     ELSE P.downloaded]
      P2 == IF ~ok THEN Rejected(P)
            ELSE IF P1.queue = <<>> THEN EnterApply(P1) ELSE P1
  IN /\ P.pc = "download"
     /\ pass' = [pass EXCEPT ![p] = P2]
     /\ lastSync' = LastSyncAfter(P2)
     /\ UNCHANGED page
     /\ last' = Label("syncDownload", Head(P.queue).id, cloudId, <<>>,
                      IF ok THEN "ok" ELSE "failed", "resolved")
     /\ UNCHANGED <<photos, order, docs, blobs, nextId, nextCloud, settings>>

\* syncPhotos: one turn of the download loop; a rejection is caught and the
\* item skipped.
SyncDownload(p, fail) ==
  LET P == pass[p]
      cloudId == The(Head(P.queue).cloudId)
      ok == ~fail /\ CanDownload(docs, blobs, cloudId)
      P1 == [P EXCEPT !.queue = Tail(P.queue),
                      !.downloaded = IF ok THEN Append(P.downloaded, DownloadedPhoto(docs, cloudId))
                                     ELSE P.downloaded,
                      !.failed = P.failed \/ ~ok]
      P2 == IF P1.queue = <<>> THEN EnterApply(P1) ELSE P1
  IN /\ P.pc = "download"
     /\ pass' = [pass EXCEPT ![p] = P2]
     /\ lastSync' = LastSyncAfter(P2)
     /\ UNCHANGED page
     /\ last' = Label("syncDownload", Head(P.queue).id, cloudId, <<>>,
                      IF ok THEN "ok" ELSE "failed", "resolved")
     /\ UNCHANGED <<photos, order, docs, blobs, nextId, nextCloud, settings>>

\* syncWithCloud: updatePhoto of one uploaded photo with its cloud linkage.
SyncApplyUpload(p, fail) ==
  LET P == pass[p]
      cloudPhoto == Head(P.queue)
      exists == cloudPhoto.id \in DOMAIN photos
      r == IF exists
           THEN Updated(photos, docs, cloudPhoto.id, [cloudId |-> cloudPhoto.cloudId], fail)
           ELSE [photos |-> photos, docs |-> docs, remote |-> "none"]
      P1 == [P EXCEPT !.queue = Tail(P.queue), !.failed = P.failed \/ r.remote = "failed"]
      P2 == IF P1.queue = <<>> THEN EnterSave(P1) ELSE P1
  IN /\ P.pc = "applyUpload"
     /\ (~exists \/ photos[cloudPhoto.id].cloudId = {}) => ~fail
     /\ photos' = r.photos
     /\ docs' = r.docs
     /\ pass' = [pass EXCEPT ![p] = P2]
     /\ lastSync' = LastSyncAfter(P2)
     /\ UNCHANGED page
     /\ last' = Label("syncApplyUpload", cloudPhoto.id, The(cloudPhoto.cloudId), <<>>,
                      r.remote, "resolved")
     /\ UNCHANGED <<order, blobs, nextId, nextCloud, settings>>

\* syncWithCloud: savePhotoWithId of one downloaded photo.
SyncSaveDownloaded(p) ==
  LET P == pass[p]
      photo == Head(P.queue)
      r == SavedWithId(photos, order, photo)
      P1 == [P EXCEPT !.queue = Tail(P.queue)]
      P2 == IF P1.queue = <<>> THEN Finished(P1) ELSE P1
  IN /\ P.pc = "saveDownloaded"
     /\ photos' = r.photos
     /\ order' = r.order
     /\ pass' = [pass EXCEPT ![p] = P2]
     /\ lastSync' = LastSyncAfter(P2)
     /\ UNCHANGED page
     /\ last' = Label("syncSaveDownloaded", photo.id, photo.id, <<>>, "none", "resolved")
     /\ UNCHANGED <<docs, blobs, nextId, nextCloud, settings>>

\* ------------------------------------------------------------- environment
\* A blob is removed from Firebase Storage out of band (console, lifecycle
\* rule): the case cleanupInvalidPhotos probes for.
RemoveBlobOutOfBand(cloudId) ==
  /\ cloudId \in blobs
  /\ blobs' = blobs \ {cloudId}
  /\ pass' = Disturbed(pass)
  /\ UNCHANGED page
  /\ last' = Label("removeBlob", 0, cloudId, <<>>, "none", "resolved")
  /\ UNCHANGED <<photos, order, docs, nextId, nextCloud, lastSync, settings>>

\* The page is closed while pass p is between its call and its return: the
\* pass is gone.  landed: of the call the pass was waiting in, the first
\* write had reached its store and the second had not (uploadPhoto: the blob
\* without the document; the deletePhoto of the cleanup: the document without
\* the blob; updatePhoto: the local record without the remote update;
\* savePhotoWithId: the record without the order list).
Interrupt(p, landed) ==
  LET P == pass[p]
      item == Head(P.queue)
      probed == The(item.cloudId)
  IN /\ Running(p)
     /\ landed => P.pc \in {"upload", "cleanupItem", "applyUpload", "saveDownloaded"}
     /\ (landed /\ P.pc = "upload") => nextCloud <= MaxCloud
     /\ (landed /\ P.pc = "cleanupItem") => probed \notin blobs
     /\ (landed /\ P.pc = "applyUpload") => item.id \in DOMAIN photos
     /\ blobs' = IF landed /\ P.pc = "upload" THEN blobs \cup {nextCloud} ELSE blobs
     /\ nextCloud' = IF landed /\ P.pc = "upload" THEN nextCloud + 1 ELSE nextCloud
     /\ docs' = IF landed /\ P.pc = "cleanupItem" THEN Remove(docs, probed) ELSE docs
     /\ photos' = IF landed /\ P.pc = "applyUpload"
                  THEN Put(photos, item.id, Spread(photos[item.id], [cloudId |-> item.cloudId]))
                  ELSE IF landed /\ P.pc = "saveDownloaded"
                  THEN Put(photos, item.id, item)
                  ELSE photos
     /\ pass' = [pass EXCEPT ![p] = [IdlePass EXCEPT !.afterInterrupt = TRUE]]
     /\ UNCHANGED page
     /\ last' = Label("interrupt", 0, 0, <<>>, "none", "none")
     /\ UNCHANGED <<order, nextId, lastSync, settings>>

\* ------------------------------------------------------ connectivity listeners
\* A registration is one call of setupSyncListeners; its handlers are the
\* closures handleOnline and handleOffline of that call.
Regs == 1..MaxRegs

NoListeners == [online |-> {}, offline |-> {}, next |-> 1, removed |-> {}, pending |-> {}]

\* One invocation of a callback handed to registration reg.
Invocation(reg, callback) == [reg |-> reg, callback |-> callback]

\* The invocations made by the dispatch of an event to the handlers regs, in
\* the order of their registration.
Dispatched(regs, callback) ==
  LET RECURSIVE from(_)
      from(r) == IF r > MaxRegs THEN <<>>
                 ELSE (IF r \in regs THEN <<Invocation(r, callback)>> ELSE <<>>) \o from(r + 1)
  IN from(1)

\* A cleanup that forgets the offline handler.
CleanupOnlineOnly(reg) ==
  /\ reg < listeners.next
  /\ listeners' = [listeners EXCEPT !.online = @ \ {reg}, !.removed = @ \cup {reg}]
  /\ last' = Label("cleanup", reg, reg, <<>>, "none", "resolved")
  /\ UNCHANGED <<photos, order, docs, blobs, nextId, nextCloud, lastSync, pass, settings>>
  /\ UNCHANGED <<calls, defaults, countdown>>

\* setupSyncListeners, called by the mount effect of the SyncStatus
\* component: the component is mounted when it is not, so at most one
\* registration has not been cleaned up.
SetupSyncListeners ==
  LET reg == listeners.next
  IN /\ reg <= MaxRegs
     /\ \A r \in 1..(reg - 1) : r \in listeners.removed
     /\ listeners' = [listeners EXCEPT !.online = @ \cup {reg}, !.offline = @ \cup {reg},
                                       !.next = reg + 1]
     /\ last' = Label("setupSyncListeners", reg, reg, <<>>, "none", "resolved")
     /\ UNCHANGED <<photos, order, docs, blobs, nextId, nextCloud, lastSync, pass, settings>>
     /\ UNCHANGED <<calls, defaults, countdown>>

\* The function setupSyncListeners returned to registration reg: both
\* handlers are removed.  Calling it again removes nothing.
Cleanup(reg) ==
  /\ reg < listeners.next
  /\ listeners' = [listeners EXCEPT !.online = @ \ {reg}, !.offline = @ \ {reg},
                                    !.removed = @ \cup {reg}]
  /\ last' = Label("cleanup", reg, reg, <<>>, "none", "resolved")
  /\ UNCHANGED <<photos, order, docs, blobs, nextId, nextCloud, lastSync, pass, settings>>
  /\ UNCHANGED <<calls, defaults, countdown>>

\* The window fires 'online': every handleOnline on the window calls its
\* onOnline, which is handleSync of the gallery and calls syncWithCloud, and
\* then asks for the sync status.  At most one pass started by an event runs
\* at a time.
OnlineEvent ==
  LET regs == listeners.online
  IN /\ regs # {} => ~Running("online")
     /\ listeners' = [listeners EXCEPT !.pending = @ \cup regs]
     /\ pass' = IF regs = {} THEN pass
                ELSE [pass EXCEPT !["online"] =
                        [IdlePass EXCEPT !.pc = "cleanupList",
                                         !.afterInterrupt = (pass["online"].pc = "idle"
                                                             /\ pass["online"].afterInterrupt)]]
     /\ last' = Label("onlineEvent", 0, 0, Dispatched(regs, "onOnline"), "none", "resolved")
     /\ UNCHANGED <<photos, order, docs, blobs, nextId, nextCloud, lastSync, settings>>
     /\ UNCHANGED <<calls, defaults, countdown>>

\* The window fires 'offline': every handleOffline on the window calls its
\* onOffline and then asks for the sync status.
OfflineEvent ==
  LET regs == listeners.offline
  IN /\ listeners' = [listeners EXCEPT !.pending = @ \cup regs]
     /\ last' = Label("offlineEvent", 0, 0, Dispatched(regs, "onOffline"), "none", "resolved")
     /\ UNCHANGED <<photos, order, docs, blobs, nextId, nextCloud, lastSync, pass, settings>>
     /\ UNCHANGED <<calls, defaults, countdown>>

\* getSyncStatus of a handler settles (it never rejects) and the handler's
\* onSyncStatusChange is called with it.
StatusSettles(reg) ==
  /\ reg \in listeners.pending
  /\ listeners' = [listeners EXCEPT !.pending = @ \ {reg}]
  /\ last' = Label("statusSettles", reg, reg, <<Invocation(reg, "onSyncStatusChange")>>,
                   "none", "resolved")
  /\ UNCHANGED <<photos, order, docs, blobs, nextId, nextCloud, lastSync, pass, settings>>
  /\ UNCHANGED <<calls, defaults, countdown>>

\* ------------------------------------------------------ the countdown display
\* The Countdown component before it is mounted and after it is unmounted.
\* held tells which object the mount effect got from getSettings and its
\* interval callback closes over: the defaults object, or an object of its
\* own (kept in own); shown is the target of the last calculation.
Unmounted == [mounted |-> FALSE, held |-> "none", own |-> <<>>, shown |-> <<>>]

\* The countdown settings the interval callback reads from the object it
\* closes over.
HeldCountdown ==
  IF countdown.held = "defaults" THEN defaults.countdown ELSE countdown.own.countdown

\* The countdown tab is shown: the mount effect of Countdown reads the
\* settings once, calculates, and starts the interval.
CountdownMount ==
  /\ ~countdown.mounted
  /\ countdown' = [mounted |-> TRUE,
                   held |-> IF settings = <<>> THEN "defaults" ELSE "own",
                   own |-> IF settings = <<>> THEN <<>> ELSE GetSettings(settings),
                   shown |-> GetSettings(settings).countdown]
  /\ last' = Label("countdownMount", 0, 0, <<>>, "none", "resolved")
  /\ UNCHANGED <<photos, order, docs, blobs, nextId, nextCloud, lastSync, pass, settings>>
  /\ UNCHANGED <<listeners, calls, defaults>>

\* Another tab is shown: the effect's cleanup clears the interval.
CountdownUnmount ==
  /\ countdown.mounted
  /\ countdown' = Unmounted
  /\ last' = Label("countdownUnmount", 0, 0, <<>>, "none", "resolved")
  /\ UNCHANGED <<photos, order, docs, blobs, nextId, nextCloud, lastSync, pass, settings>>
  /\ UNCHANGED <<listeners, calls, defaults>>

\* One turn of the one-second interval: the remaining time is calculated
\* against the target in the object the callback closes over.
Tick ==
  /\ countdown.mounted
  /\ countdown' = [countdown EXCEPT !.shown = HeldCountdown]
  /\ last' = Label("tick", 0, 0, <<>>, "none", "resolved")
  /\ UNCHANGED <<photos, order, docs, blobs, nextId, nextCloud, lastSync, pass, settings>>
  /\ UNCHANGED <<listeners, calls, defaults>>

\* The page is loaded again: the module state and the components start
\* over, the stores stay.
Reload ==
  /\ \A p \in PassIds : ~Running(p)
  /\ defaults' = DEFAULT_APP_SETTINGS
  /\ countdown' = Unmounted
  /\ listeners' = NoListeners
  /\ calls' = <<>>
  /\ pass' = Disturbed(pass)
  /\ last' = Label("reload", 0, 0, <<>>, "none", "resolved")
  /\ UNCHANGED <<photos, order, docs, blobs, nextId, nextCloud, lastSync, settings>>

\* --------------------------------------------------------------- initial state
Init ==
  /\ photos = <<>>
  /\ order = <<>>
  /\ docs = <<>>
  /\ blobs = {}
  /\ nextId = 1
  /\ nextCloud = 1
  /\ lastSync = 0
  /\ pass = [p \in PassIds |-> IdlePass]
  /\ settings = <<>>
  /\ listeners = NoListeners
  /\ calls = <<>>
  /\ defaults = DEFAULT_APP_SETTINGS
  /\ countdown = Unmounted
  /\ last = Label("init", 0, 0, <<>>, "none", "resolved")

\* ------------------------------------------------ the local store on its own
\* Ids a caller of the store can hand in: the generated ones and a foreign one.
KnownIds == (1..(nextId - 1)) \cup {GhostId}

\* The photo the gallery hands to savePhoto for a file without caption.
PlainPhoto == [createdAt |-> 1, caption |-> {}, isFavorite |-> FALSE, order |-> 0, cloudId |-> {}]

\* Photos handed to savePhoto by the gallery and the sample loader.
StorePhotoInputs ==
  [createdAt : {1}, caption : {{}, {"hi"}}, isFavorite : BOOLEAN, order : {0},
   cloudId : {{}}]

\* Partial updates handed to updatePhoto by the lightbox and the grid.
UserUpdates ==
  {[caption |-> c] : c \in {{}, {"hi"}}} \cup {[isFavorite |-> f] : f \in BOOLEAN}

\* save, delete, reorder, and single-photo upload (so that deletions reach
\* the remote side).
OrderNext ==
  \/ SavePhoto(PlainPhoto)
  \/ \E id \in KnownIds, fail \in {"none", "doc", "blob"} : DeletePhoto(id, fail)
  \/ \E photoIds \in SeqsUpTo(KnownIds, MaxOrderLen) : ReorderPhotos(photoIds)
  \/ \E id \in KnownIds : UploadPhotoToCloud(id, "none", FALSE)

SpecOrder == Init /\ [][OrderNext]_vars

\* save, update, and single-photo upload (so that updates reach the remote
\* side).
UpdateNext ==
  \/ \E photo \in StorePhotoInputs : SavePhoto(photo)
  \/ \E id \in KnownIds, updates \in UserUpdates, fail \in BOOLEAN : UpdatePhoto(id, updates, fail)
  \/ \E id \in KnownIds : UploadPhotoToCloud(id, "none", FALSE)

SpecUpdate == Init /\ [][UpdateNext]_vars

\* -------------------------------------------------- the store and the sync
\* Photos the gallery saves: createdAt is new Date(), and only equality and
\* order of times matter, so the k-th generated id carries time k.
SyncPhotoInputs ==
  [createdAt : {nextId}, caption : {{}}, isFavorite : {FALSE}, order : {0}, cloudId : {{}}]

\* No syncWithCloud pass is between its call and its return.
Quiet == \A p \in PassIds : ~Running(p)

\* The gallery's operations and one sync pass at a time.  While a pass runs
\* the user can delete photos; the other operations run between passes.
Next ==
  \/ Quiet /\ \E photo \in SyncPhotoInputs : SavePhoto(photo)
  \/ \E id \in 1..(nextId - 1), fail \in {"none", "doc", "blob"} :
       (Quiet \/ fail = "none") /\ DeletePhoto(id, fail)
  \/ Quiet /\ \E id \in 1..(nextId - 1), fail \in {"none", "blob", "doc"}, failUpdate \in BOOLEAN :
       UploadPhotoToCloud(id, fail, failUpdate)
  \/ Quiet /\ \E cloudId \in 1..(nextCloud - 1), fail \in BOOLEAN :
       DownloadPhotoFromCloud(cloudId, fail)
  \/ SyncStart("manual")
  \/ \E fail \in BOOLEAN : CleanupList("manual", fail)
  \/ \E probeFail \in BOOLEAN, delFail \in {"none", "doc", "blob"} :
       CleanupItem("manual", probeFail, delFail)
  \/ SyncReadLocal("manual")
  \/ \E fail \in BOOLEAN : SyncListRemote("manual", fail)
  \/ \E fail \in {"none", "blob", "doc"} : SyncUpload("manual", fail)
  \/ \E fail \in BOOLEAN : SyncDownload("manual", fail)
  \/ \E fail \in BOOLEAN : SyncApplyUpload("manual", fail)
  \/ SyncSaveDownloaded("manual")

Spec == Init /\ [][Next]_vars

\* ------------------------------------------------------ conflicts in a pass
\* Archives handed to importData: a supported manifest, no settings file, one
\* photo file for an id that exists somewhere, with any creation time.
ConflictArchives ==
  {[manifest |-> "1.0.0", settings |-> <<>>, photos |-> <<f>>] :
     f \in [id : 1..(nextId - 1), createdAt : {ToISOString(t) : t \in Times}, caption : {{}},
            isFavorite : {FALSE}, order : {0}]}

\* save, import and single-photo upload between passes, deletions at any
\* time, and one sync pass at a time.  The remote side answers every probe
\* and deletion of the cleanup; the list fetch, uploads, downloads and remote
\* updates of the pass can fail.
ConflictNext ==
  \/ Quiet /\ \E photo \in SyncPhotoInputs : SavePhoto(photo)
  \/ \E id \in 1..(nextId - 1) : DeletePhoto(id, "none")
  \/ Quiet /\ \E id \in 1..(nextId - 1) : UploadPhotoToCloud(id, "none", FALSE)
  \/ Quiet /\ \E archive \in ConflictArchives : ImportData(archive)
  \/ SyncStart("manual")
  \/ CleanupList("manual", FALSE)
  \/ CleanupItem("manual", FALSE, "none")
  \/ SyncReadLocal("manual")
  \/ \E fail \in BOOLEAN : SyncListRemote("manual", fail)
  \/ \E fail \in {"none", "blob", "doc"} : SyncUpload("manual", fail)
  \/ \E fail \in BOOLEAN : SyncDownload("manual", fail)
  \/ \E fail \in BOOLEAN : SyncApplyUpload("manual", fail)
  \/ SyncSaveDownloaded("manual")

SpecConflict == Init /\ [][ConflictNext]_vars

\* ------------------------------------------------- cleanup of dangling records
\* save, delete and single-photo upload between passes, blobs vanishing out of
\* band between passes, and one sync pass at a time whose cleanup meets every
\* outcome of the probe and of the deletion; the rest of the pass meets no
\* failure of its own making.
CleanupNext ==
  \/ Quiet /\ \E photo \in SyncPhotoInputs : SavePhoto(photo)
  \/ Quiet /\ \E id \in 1..(nextId - 1), fail \in {"none", "doc", "blob"} : DeletePhoto(id, fail)
  \/ Quiet /\ \E id \in 1..(nextId - 1) : UploadPhotoToCloud(id, "none", FALSE)
  \/ Quiet /\ \E cloudId \in 1..(nextCloud - 1) : RemoveBlobOutOfBand(cloudId)
  \/ SyncStart("manual")
  \/ \E fail \in BOOLEAN : CleanupList("manual", fail)
  \/ \E probeFail \in BOOLEAN, delFail \in {"none", "doc", "blob"} :
       CleanupItem("manual", probeFail, delFail)
  \/ SyncReadLocal("manual")
  \/ SyncListRemote("manual", FALSE)
  \/ SyncUpload("manual", "none")
  \/ SyncDownload("manual", FALSE)
  \/ \E fail \in BOOLEAN : SyncApplyUpload("manual", fail)
  \/ SyncSaveDownloaded("manual")

SpecCleanup == Init /\ [][CleanupNext]_vars

\* ------------------------------------------------------ interrupted passes
\* save and delete between passes, blobs vanishing out of band between
\* passes, one sync pass at a time, and the page closing at any point of a
\* pass.  The remote side rejects no call that its state allows.
InterruptNext ==
  \/ Quiet /\ \E photo \in SyncPhotoInputs : SavePhoto(photo)
  \/ Quiet /\ \E id \in 1..(nextId - 1) : DeletePhoto(id, "none")
  \/ Quiet /\ \E cloudId \in 1..(nextCloud - 1) : RemoveBlobOutOfBand(cloudId)
  \/ SyncStart("manual")
  \/ CleanupList("manual", FALSE)
  \/ CleanupItem("manual", FALSE, "none")
  \/ SyncReadLocal("manual")
  \/ SyncListRemote("manual", FALSE)
  \/ SyncUpload("manual", "none")
  \/ SyncDownload("manual", FALSE)
  \/ SyncApplyUpload("manual", FALSE)
  \/ SyncSaveDownloaded("manual")
  \/ \E landed \in BOOLEAN : Interrupt("manual", landed)

SpecInterrupt == Init /\ [][InterruptNext]_vars

\* ------------------------------------------------------- export and import
\* The settings files an archive can hold.
SettingsValues ==
  [theme : {"system", "dark"}, countdown : {DEFAULT_COUNTDOWN, [targetDate |-> 2, timezone |-> "UTC"]}]

\* Photo files of an archive: entries as exportData writes them (an undefined
\* caption leaves no key), and a file that does not parse.
PhotoFiles ==
  {JsonRoundTrip(f) :
     f \in [id : {1, GhostId}, createdAt : {ToISOString(1)}, caption : {{}, {"hi"}},
            isFavorite : {FALSE}, order : {0}]}
  \cup {MalformedFile}

\* Archives handed to importData.
ImportArchives ==
  [manifest : {"missing", "1.0.0", "2.0.0"},
   settings : {<<>>, <<MalformedFile>>} \cup {<<v>> : v \in SettingsValues},
   photos : SeqsUpTo(PhotoFiles, MaxFiles)]

\* save, update, theme changes, import of any archive, and the move of the
\* whole state to an empty store by export and import.
ImportNext ==
  \/ \E photo \in StorePhotoInputs : SavePhoto(photo)
  \/ \E id \in 1..(nextId - 1), updates \in UserUpdates : UpdatePhoto(id, updates, FALSE)
  \/ \E theme \in {"system", "dark"} : UpdateTheme(theme)
  \/ \E archive \in ImportArchives : ImportData(archive)
  \/ ExportThenImportIntoEmptyStore

SpecImport == Init /\ [][ImportNext]_vars

\* ------------------------------------------------- every store operation
\* Photos handed to savePhotoWithId: any id, generated or not.
PhotosWithId ==
  [id : KnownIds, createdAt : {1}, caption : {{}, {"hi"}}, isFavorite : {FALSE},
   order : {0}, cloudId : {{}}]

\* save, saveWithId, update, delete and reorder, with no photo in the cloud.
StoreNext ==
  \/ \E photo \in StorePhotoInputs : SavePhoto(photo)
  \/ \E photo \in PhotosWithId : SavePhotoWithId(photo)
  \/ \E id \in KnownIds, updates \in UserUpdates : UpdatePhoto(id, updates, FALSE)
  \/ \E id \in KnownIds : DeletePhoto(id, "none")
  \/ \E photoIds \in SeqsUpTo(KnownIds, MaxOrderLen) : ReorderPhotos(photoIds)

SpecStore == Init /\ [][StoreNext]_vars

\* ------------------------------------------------- passes started by events
\* save and delete between passes, the SyncStatus component mounting and
\* unmounting, the window's online and offline events, and the steps of the
\* pass an online event starts.  The remote side rejects no call of a pass
\* that its state allows.
ListenersNext ==
  \/ Quiet /\ \E photo \in SyncPhotoInputs : SavePhoto(photo)
  \/ Quiet /\ \E id \in 1..(nextId - 1), fail \in {"none", "doc"} : DeletePhoto(id, fail)
  \/ SetupSyncListeners
  \/ \E reg \in Regs : Cleanup(reg)
  \/ OnlineEvent
  \/ OfflineEvent
  \/ \E reg \in Regs : StatusSettles(reg)
  \/ CleanupList("online", FALSE)
  \/ CleanupItem("online", FALSE, "none")
  \/ SyncReadLocal("online")
  \/ SyncListRemote("online", FALSE)
  \/ SyncUpload("online", "none")
  \/ SyncDownload("online", FALSE)
  \/ SyncApplyUpload("online", FALSE)
  \/ SyncSaveDownloaded("online")

SpecListeners == Init /\ [][ListenersNext]_vars

\* ------------------------------------------- passes started by hand and by events
\* save and delete between passes, single-photo upload at any time, the sync
\* button (pass "manual"), the SyncStatus component mounting, the window's
\* online event (pass "online"), and the steps of both passes, which
\* interleave freely.  The remote side rejects no call of a pass that its
\* state allows.
ConcurrentNext ==
  \/ Quiet /\ \E photo \in SyncPhotoInputs : SavePhoto(photo)
  \/ Quiet /\ \E id \in 1..(nextId - 1) : DeletePhoto(id, "none")
  \/ \E id \in 1..(nextId - 1) : UploadPhotoToCloud(id, "none", FALSE)
  \/ SetupSyncListeners
  \/ OnlineEvent
  \/ SyncStart("manual")
  \/ \E p \in PassIds : CleanupList(p, FALSE)
  \/ \E p \in PassIds : CleanupItem(p, FALSE, "none")
  \/ \E p \in PassIds : SyncReadLocal(p)
  \/ \E p \in PassIds : SyncListRemote(p, FALSE)
  \/ \E p \in PassIds : SyncUpload(p, "none")
  \/ \E p \in PassIds : SyncDownload(p, FALSE)
  \/ \E p \in PassIds : SyncApplyUpload(p, FALSE)
  \/ \E p \in PassIds : SyncSaveDownloaded(p)

SpecConcurrent == Init /\ [][ConcurrentNext]_vars

\* ------------------------------------------------ store calls that interleave
\* The gallery adds a batch of files (Promise.all over savePhoto), and the
\* lightbox and the grid update photos, without waiting for the calls in
\* progress: the calls interleave at their awaits.
AwaitNext ==
  \/ \E photo \in StorePhotoInputs : SavePhotoSet(photo)
  \/ \E slot \in Slots : SavePhotoGetOrder(slot)
  \/ \E slot \in Slots : SavePhotoSetOrder(slot)
  \/ \E id \in 1..(nextId - 1), updates \in UserUpdates : UpdatePhotoGet(id, updates)
  \/ \E slot \in Slots : UpdatePhotoSet(slot, FALSE)

SpecAwait == Init /\ [][AwaitNext]_vars

\* ---------------------------------------------- settings and the countdown
\* The countdown settings the editor can save.
CountdownValues == [targetDate : Times, timezone : {"America/Edmonton", "UTC"}]

\* The countdown tab shown and hidden, its interval, the editor (opened from
\* the countdown tab) saving a target, the settings tab (shown instead of
\* the countdown tab) changing the theme, restoring settings and clearing
\* them, and the page loading again.
SettingsNext ==
  \/ CountdownMount
  \/ CountdownUnmount
  \/ Tick
  \/ countdown.mounted /\ \E value \in CountdownValues : UpdateCountdown(value)
  \/ ~countdown.mounted /\ \E theme \in {"system", "dark"} : UpdateTheme(theme)
  \/ ~countdown.mounted /\ \E value \in SettingsValues : SaveSettings(value)
  \/ ~countdown.mounted /\ ClearAllData
  \/ Reload

SpecSettings == Init /\ [][SettingsNext]_vars

\* ================================================================ properties
\* A pass that has returned successfully and that no other operation crossed.
CompletedAlone(p) == pass[p].pc = "resolved" /\ ~pass[p].interleaved

\* The local-id fields embedded in the remote documents.
EmbeddedIds == {docs[k].id : k \in DOMAIN docs}

\* C1: a syncWithCloud pass in which no remote or local call fails and which
\* no other operation interleaves ends with the set of local photo ids equal
\* to the set of local-id fields embedded in the remote documents.
ConvergenceOfOnePass ==
  \A p \in PassIds :
    (CompletedAlone(p) /\ ~pass[p].failed) => DOMAIN photos = EmbeddedIds

\* A clean pass has returned that both uploaded and downloaded.
ConvergenceWitness ==
  \E p \in PassIds :
    /\ CompletedAlone(p) /\ ~pass[p].failed
    /\ pass[p].uploaded # <<>> /\ pass[p].downloaded # <<>>

\* C2: in a completed pass the uploaded photos are exactly the local photos
\* whose id is absent from the remote index, each once, and when the pass
\* returns the local record of each carries a cloudId that is the key of a
\* remote document whose embedded id is the photo's id.
UploadSetExact ==
  \A p \in PassIds :
    CompletedAlone(p) =>
      LET P == pass[p]
          absent == {i \in 1..Len(P.localPhotos) :
                       \A j \in 1..Len(P.cloudPhotos) :
                         P.cloudPhotos[j].id # P.localPhotos[i].id}
      IN /\ Len(P.uploaded) = Cardinality(absent)
         /\ {P.uploaded[i].id : i \in 1..Len(P.uploaded)} = {P.localPhotos[i].id : i \in absent}
         /\ \A i \in 1..Len(P.uploaded) :
              LET id == P.uploaded[i].id
              IN /\ id \in DOMAIN photos
                 /\ photos[id].cloudId # {}
                 /\ The(photos[id].cloudId) \in DOMAIN docs
                 /\ docs[The(photos[id].cloudId)].id = id

\* A pass has returned that uploaded one local photo and left alone another
\* whose id was in the remote index.
UploadSetWitness ==
  \E p \in PassIds :
    /\ CompletedAlone(p)
    /\ pass[p].uploaded # <<>>
    /\ \E i \in 1..Len(pass[p].localPhotos) : MapHas(pass[p].cloudPhotos, pass[p].localPhotos[i].id)

\* C3: a photo created locally by downloading a remote document, through a
\* pass or through downloadPhotoFromCloud, is stored under the local id
\* embedded in that document.  (last.id is the embedded id, last.key the id
\* the photo was stored under.)
DownloadKeepsEmbeddedId ==
  (last.op \in {"syncSaveDownloaded", "downloadFromCloud"} /\ last.outcome = "resolved") =>
    /\ last.key = last.id
    /\ last.id \in DOMAIN photos
    /\ photos[last.id].id = last.id


\* The entry of the remote index for an id: of the listed cloud photos with
\* that id, the one listed last.
IndexEntry(cloudPhotos, id, c) ==
  \E j \in 1..Len(cloudPhotos) :
    /\ cloudPhotos[j] = c
    /\ c.id = id
    /\ \A k \in (j + 1)..Len(cloudPhotos) : cloudPhotos[k].id # id

LinkedPhotoHasDocument ==
  Quiet => \A id \in DOMAIN photos :
             photos[id].cloudId # {} => The(photos[id].cloudId) \in DOMAIN docs

\* C6: between passes, no remote document embeds the id of a local photo
\* that carries no cloudId.
UnlinkedPhotoNeverUploaded ==
  Quiet => \A id \in DOMAIN photos :
             photos[id].cloudId = {} => id \notin EmbeddedIds

\* C7 as stated: once delete(id) has returned, whatever the id, the call has
\* resolved, no record is stored under id and id is not in the order list.
DeleteRemovesAnyId ==
  last.op = "delete" =>
    /\ last.outcome = "resolved"
    /\ last.id \notin DOMAIN photos
    /\ ~InSeq(last.id, order)

\* C7, for the id of a stored photo: delete(id) resolves, the record is gone
\* and id is not in the order list, whether the remote deletion succeeded,
\* failed or was not attempted.
DeleteRemovesStoredPhoto ==
  [][(last'.op = "delete" /\ last'.id \in DOMAIN photos) =>
       /\ last'.outcome = "resolved"
       /\ last'.id \notin DOMAIN photos'
       /\ ~InSeq(last'.id, order')]_vars

\* A stored photo has been deleted although its remote deletion failed.
DeleteWitness ==
  /\ last.op = "delete" /\ last.remote = "failed"
  /\ last.id \notin DOMAIN photos

\* C8: update(id, fields) on a stored photo resolves and leaves the stored
\* photo equal to the previous photo with the fields merged in, also when
\* the remote update fails; no other photo changes.
UpdateMergesLocally ==
  [][(last'.op = "update" /\ last'.id \in DOMAIN photos) =>
       LET id == last'.id
           fields == last'.arg
       IN /\ last'.outcome = "resolved"
          /\ DOMAIN photos' = DOMAIN photos
          /\ DOMAIN photos'[id] = (DOMAIN photos[id]) \cup (DOMAIN fields)
          /\ \A k \in DOMAIN fields : photos'[id][k] = fields[k]
          /\ \A k \in (DOMAIN photos[id]) \ (DOMAIN fields) : photos'[id][k] = photos[id][k]
          /\ \A other \in (DOMAIN photos) \ {id} : photos'[other] = photos[other]]_vars

\* A stored photo with a cloudId has been updated and the remote update failed.
UpdateWitness ==
  /\ last.op = "update" /\ last.remote = "failed"
  /\ last.id \in DOMAIN photos
  /\ \A k \in DOMAIN last.arg : photos[last.id][k] = last.arg[k]

\* C9: getPhotosInOrder is a permutation of getAllPhotos: every stored photo
\* occurs exactly once and nothing else occurs.
InOrderIsPermutation ==
  LET inOrder == GetPhotosInOrder(photos, order)
  IN /\ Len(inOrder) = Cardinality(DOMAIN photos)
     /\ \A id \in DOMAIN photos :
          Cardinality({i \in 1..Len(inOrder) : inOrder[i] = photos[id]}) = 1

UploadFailureAbortsPass ==
  [][(last'.op = "syncUpload" /\ last'.remote = "failed") =>
       \E p \in PassIds :
         /\ pass[p].pc = "upload"
         /\ pass'[p].pc = "rejected" /\ pass'[p].result = "rejected"
         /\ pass'[p].queue = <<>>
         /\ pass'[p].uploaded = pass[p].uploaded
         /\ pass'[p].downloaded = <<>>
         /\ photos' = photos /\ order' = order
         /\ lastSync' = lastSync
         /\ ~pass'[p].interleaved => GetAllPhotos(photos') = pass'[p].localPhotos]_vars

\* A pass was rejected by a failed upload after an earlier upload had succeeded.
UploadFailureWitness ==
  /\ last.op = "syncUpload" /\ last.remote = "failed"
  /\ \E p \in PassIds : pass[p].pc = "rejected" /\ pass[p].uploaded # <<>>

\* The positions of a pass from its download loop to its last local write.
AfterUploads == {"download", "applyUpload", "saveDownloaded"}

\* C12: a failed download does not abort the pass.  The step of a failed
\* download leaves the download list as it was and the pass in progress; a
\* pass that has reached its download loop is never rejected; and when an
\* uncrossed pass returns, every photo of its download list is stored locally
\* under its id and listed in the order list.
DownloadFailureIsSkipped ==
  [][\A p \in PassIds :
       /\ (pass[p].pc = "download" /\ last'.op = "syncDownload" /\ last'.remote = "failed") =>
            /\ pass'[p].downloaded = pass[p].downloaded
            /\ pass'[p].queue = Tail(pass[p].queue) \/ pass'[p].pc # "download"
       /\ (pass[p].pc = "download" /\ last'.op = "syncDownload" /\ last'.remote = "ok") =>
            /\ Len(pass'[p].downloaded) = Len(pass[p].downloaded) + 1
            /\ pass'[p].downloaded[Len(pass'[p].downloaded)].id = last'.id
       /\ pass[p].pc \in AfterUploads =>
            /\ pass'[p].pc \in AfterUploads \cup {"resolved"}
            /\ pass'[p].result # "rejected"
       /\ (pass[p].pc \in AfterUploads /\ pass'[p].pc = "resolved" /\ ~pass'[p].interleaved) =>
            \A i \in 1..Len(pass'[p].downloaded) :
              LET photo == pass'[p].downloaded[i]
              IN /\ photo.id \in DOMAIN photos'
                 /\ \E j \in 1..Len(pass'[p].downloaded) : photos'[photo.id] = pass'[p].downloaded[j]
                 /\ InSeq(photo.id, order')]_vars

\* A pass has returned successfully in which, of two remote-only records,
\* one download failed and the other photo was materialised.
DownloadFailureWitness ==
  \E p \in PassIds :
    /\ CompletedAlone(p)
    /\ Len(DownloadQueue(pass[p].localPhotos, pass[p].cloudPhotos)) = 2
    /\ Len(pass[p].downloaded) = 1
    /\ pass[p].downloaded[1].id \in DOMAIN photos

\* C13: the count of cleanupInvalidPhotos is the number of documents it
\* deleted: every turn of its loop adds to the count exactly the number of
\* documents it removed.
CleanupCountsDeletedDocuments ==
  [][last'.op = "cleanupItem" =>
       \A p \in PassIds :
         pass[p].pc = "cleanupItem" =>
           pass'[p].cleaned - pass[p].cleaned =
             Cardinality(DOMAIN docs) - Cardinality(DOMAIN docs')]_vars

\* C14: a complete pass that follows an interrupted one, is crossed by no
\* other operation and meets no rejection of the remote side's making ends
\* with every id present on both sides and with at most one remote document
\* for each local photo.
AgreementAfterInterruption ==
  \A p \in PassIds :
    (CompletedAlone(p) /\ pass[p].afterInterrupt) =>
      /\ DOMAIN photos = EmbeddedIds
      /\ \A id \in DOMAIN photos : Cardinality({k \in DOMAIN docs : docs[k].id = id}) <= 1

\* A pass has returned after an interrupted one, with a local photo that the
\* interrupted pass had uploaded and never linked (its id is in the remote
\* index although the record carries no cloudId) and another that this pass
\* uploaded.
AgreementAfterInterruptionWitness ==
  \E p \in PassIds :
    /\ CompletedAlone(p) /\ pass[p].afterInterrupt
    /\ pass[p].uploaded # <<>>
    /\ \E i \in 1..Len(pass[p].localPhotos) :
         /\ pass[p].localPhotos[i].cloudId = {}
         /\ MapHas(pass[p].cloudPhotos, pass[p].localPhotos[i].id)

\* C15: importData of an archive whose manifest is missing or carries another
\* version than "1.0.0" rejects, and the persisted settings, every photo
\* record and the order list are as before the call.  (last.arg is the
\* manifest of the archive.)
BadManifestWritesNothing ==
  [][(last'.op = "import" /\ last'.arg # "1.0.0") =>
       /\ last'.outcome = "rejected"
       /\ settings' = settings
       /\ photos' = photos
       /\ order' = order]_vars

\* An archive with a bad manifest has been rejected on a store that holds
\* settings and photos.
BadManifestWitness ==
  /\ last.op = "import" /\ last.arg # "1.0.0" /\ last.outcome = "rejected"
  /\ settings # <<>> /\ photos # <<>>

\* C16: whenever importData rejects, the persisted settings and the local
\* photo records are as before the call.
RejectedImportWritesNothing ==
  [][(last'.op = "import" /\ last'.outcome = "rejected") =>
       (settings' = settings /\ photos' = photos)]_vars

SavedPhotoIsRead ==
  [][/\ last'.op = "save" =>
          LET id == last'.key
              p == last'.arg
          IN /\ id \notin DOMAIN photos
             /\ id \in DOMAIN photos'
             /\ DOMAIN photos'[id] = (DOMAIN p) \cup {"id"}
             /\ photos'[id].id = id
             /\ \A k \in (DOMAIN p) \ {"id"} : photos'[id][k] = p[k]
     /\ \A id \in DOMAIN photos :
          \/ id \in DOMAIN photos' /\ photos'[id] = photos[id]
          \/ last'.id = id /\ last'.op \in {"update", "delete", "saveWithId"}]_vars

\* A photo with a caption and the favorite flag has been saved while another
\* photo was stored.
SavedPhotoWitness ==
  /\ last.op = "save"
  /\ last.arg.caption # {} /\ last.arg.isFavorite
  /\ photos[last.key].caption = last.arg.caption
  /\ Cardinality(DOMAIN photos) = 2

\* The number of times id occurs in the sequence s.
Occurrences(id, s) == Cardinality({i \in 1..Len(s) : s[i] = id})

\* C19: savePhotoWithId with an id that occurs in the order list leaves the
\* order list unchanged; with an id that does not, it appends the id once.
SaveWithIdKeepsOrder ==
  [][last'.op = "saveWithId" =>
       /\ InSeq(last'.id, order) => order' = order
       /\ ~InSeq(last'.id, order) => order' = Append(order, last'.id)
       /\ Occurrences(last'.id, order') <= Occurrences(last'.id, order) + 1]_vars

\* savePhotoWithId has run with an id that was already in the order list
\* (the last of at least two such calls: the id is stored and listed).
SaveWithIdWitness ==
  /\ last.op = "saveWithId"
  /\ Occurrences(last.id, order) = 1
  /\ Len(order) = 2
  /\ order[1] = last.id

\* C20: lastSync is written only by the step in which a running pass
\* returns successfully, and every such step writes it; at that step every
\* uploaded photo still stored carries its cloud linkage and (unless another
\* operation crossed the pass) every downloaded photo is stored; a step that
\* rejects a pass leaves lastSync as it was.
LastSyncWrittenOnCompletion ==
  [][\A p \in PassIds :
       LET P == pass'[p]
           completes == Running(p) /\ P.pc = "resolved"
       IN /\ (lastSync' # lastSync) =>
               \E q \in PassIds : pass[q].pc \notin {"idle", "resolved", "rejected"}
                                  /\ pass'[q].pc = "resolved"
          /\ completes =>
               /\ lastSync' # lastSync /\ lastSync' # 0
               /\ P.queue = <<>>
               /\ \A i \in 1..Len(P.uploaded) :
                    P.uploaded[i].id \in DOMAIN photos' =>
                      photos'[P.uploaded[i].id].cloudId = P.uploaded[i].cloudId
               /\ ~P.interleaved =>
                    \A i \in 1..Len(P.downloaded) :
                      /\ P.downloaded[i].id \in DOMAIN photos'
                      /\ InSeq(P.downloaded[i].id, order')
          /\ (Running(p) /\ P.pc = "rejected") => lastSync' = lastSync]_vars

\* A second pass has returned successfully, after uploading and downloading,
\* and lastSync holds its time.
LastSyncWitness ==
  \E p \in PassIds :
    /\ pass[p].pc = "resolved"
    /\ lastSync = 2
    /\ pass[p].uploaded # <<>> /\ pass[p].downloaded # <<>>

\* The registrations whose handle has been returned and not yet called.
Registered == (1..(listeners.next - 1)) \ listeners.removed

\* C21: between setupSyncListeners and the call of the function it returned,
\* every online event calls the registration's onOnline exactly once, which
\* starts a sync pass, and every offline event calls its onOffline exactly
\* once; an event calls no other callback, and after the returned function
\* has been called no event calls a callback of that registration or leaves
\* a status request of it behind.
ListenersCalledOncePerEvent ==
  [][last'.op \in {"onlineEvent", "offlineEvent"} =>
       LET own == IF last'.op = "onlineEvent" THEN "onOnline" ELSE "onOffline"
       IN /\ \A reg \in Regs :
               Occurrences(Invocation(reg, own), last'.arg)
                 = IF reg \in Registered THEN 1 ELSE 0
          /\ \A i \in 1..Len(last'.arg) : last'.arg[i].callback = own
          /\ (listeners'.pending \ listeners.pending) \subseteq Registered
          /\ (last'.op = "onlineEvent" /\ Registered # {}) =>
               pass'["online"].pc = "cleanupList"]_vars

\* An offline event has reached the second registration, after the first
\* one was cleaned up and while a pass started by an online event runs.
ListenersWitness ==
  /\ last.op = "offlineEvent"
  /\ listeners.removed = {1}
  /\ last.arg = <<Invocation(2, "onOffline")>>
  /\ Running("online")

\* C22: when no savePhoto call is in progress, every id that savePhoto has
\* returned occurs exactly once in the order list, also when the calls ran
\* concurrently.
ConcurrentSavesAllListed ==
  (\A slot \in DOMAIN calls : calls[slot].op # "save") =>
     \A id \in 1..(nextId - 1) : Occurrences(id, order) = 1

\* The value of a field as a reader sees it: an absent caption and an empty
\* caption read the same.
FieldValue(record, key) ==
  IF key = "caption" THEN CaptionOrEmpty(record[key]) ELSE record[key]

\* C23: after updatePhoto on a photo with a cloudId whose remote update
\* succeeded, every field of the update has the same value in the remote
\* document as in the stored photo, a field set to undefined included.
UpdateReachesRemote ==
  (last.op = "update" /\ last.remote = "ok") =>
     LET photo == photos[last.id]
         document == docs[The(photo.cloudId)]
     IN \A key \in DOMAIN last.arg : FieldValue(document, key) = FieldValue(photo, key)

\* C24: no two remote documents carry the same local photo id, whatever the
\* interleaving of the pass started by the sync button, the pass started by
\* an online event, and single-photo uploads.
OneDocumentPerPhoto ==
  \A c1, c2 \in DOMAIN docs : docs[c1].id = docs[c2].id => c1 = c2

\* C25: a photo that was deleted stays deleted on this device: an id that the
\* generator handed out and that is no longer stored (only deletePhoto
\* removes a record, and no other device exists here) is not stored again
\* by any later step, a step of a sync pass included.
DeletedPhotoStaysDeleted ==
  [][\A id \in 1..(nextId - 1) : id \notin DOMAIN photos => id \notin DOMAIN photos']_vars

\* C26: no update is lost: the step in which an updatePhoto call writes
\* leaves every field that is not among its updates as the stored photo had
\* it, so that of two interleaved calls on disjoint fields both sets of
\* fields are in the stored photo once both have completed.
NoUpdateLost ==
  [][(last'.op = "update" /\ last'.id \in DOMAIN photos) =>
       \A key \in DOMAIN photos[last'.id] \ DOMAIN last'.arg :
         /\ key \in DOMAIN photos'[last'.id]
         /\ photos'[last'.id][key] = photos[last'.id][key]]_vars

\* C27: cleanupInvalidPhotos deletes only dangling records: a turn of its
\* loop never removes a document whose blob is in the blob store, whatever
\* remote call fails in that turn.
CleanupRemovesOnlyDangling ==
  [][last'.op = "cleanupItem" =>
       \A cloudId \in DOMAIN docs : cloudId \in blobs => cloudId \in DOMAIN docs']_vars

\* C28: with no blob removed out of band, every remote document has its
\* blob, whichever remote calls of uploads and deletions fail: a failure
\* between the two writes of uploadPhoto or of deletePhoto leaves at most a
\* blob without a document.
DocumentHasBlob == DOMAIN docs \subseteq blobs

\* A deletion has just failed on the remote side, a blob without a document
\* is left behind, and another photo still has its document.
DocumentHasBlobWitness ==
  /\ last.op = "delete" /\ last.remote = "failed"
  /\ blobs \ DOMAIN docs # {}
  /\ DOMAIN docs # {}

\* C29: whenever no settings item is persisted, getSettings returns the
\* default settings (theme 'system', the default target and timezone),
\* whatever calls of updateCountdown, updateTheme, saveSettings and
\* clearAllData came before since the page was loaded.
NoItemMeansDefaults ==
  (settings = <<>>) => GetSettings(settings) = DEFAULT_APP_SETTINGS

\* C30: every turn of the countdown's interval calculates against the
\* target that is persisted, which while the countdown tab is shown is the
\* target the editor saved last.
TickUsesSavedTarget ==
  (last.op = "tick") => countdown.shown = GetSettings(settings).countdown

====
